---------------------------- MODULE Spec2Model ----------------------------
(***************************************************************************)
(* Model of the database-migrator: the dependency scheduler of main(), the *)
(* ready-set computation utils.FilterTables, and the paginated fetch and   *)
(* insert loop of functions.MigrateTable.                                  *)
(*                                                                         *)
(* The scheduler loop is that of main.go; the functions it calls are the   *)
(* ones of the packages utils and functions.  main.go also holds older     *)
(* copies of them (filterTables, migrateTable), which are not modelled.    *)
(*                                                                         *)
(* The process is one main goroutine plus one goroutine per dispatched     *)
(* table.  Every database call may fail; a failure runs log.Fatalf, which  *)
(* writes the message and then ends the process with os.Exit(1).           *)
(***************************************************************************)
EXTENDS Integers, Sequences, FiniteSets, TLC

(* ------------------------------ bounds -------------------------------- *)

\* Largest row count of a source table.
MaxRows == 2

\* Largest configured batch size.
MaxBatch == 2

\* The loop-iteration counter of main() saturates here.
MaxWaves == 3

\* Largest time.Since(startTime) a report reads, in seconds.
MaxElapsed == 1

\* Largest number of ticks the tickers of a run send.
MaxTicks == 1

\* Largest number of columns of a scanned row.
MaxCols == 2

(* --------------------------- configurations --------------------------- *)

\* Names a configured table can carry.
NamePool == <<"A", "B">>

\* Longest configured table list.
MaxTables == Len(NamePool)

TableNames == {NamePool[i] : i \in 1..MaxTables}

\* A dependency name that no configured table carries.
AbsentName == "X"

DepNames == TableNames \cup {AbsentName}

\* The source dialects MigrateTable builds a page query for.
Drivers == {"godror", "postgres"}

Min(a, b) == IF a < b THEN a ELSE b

RECURSIVE SetToSeq(_)
SetToSeq(S) ==
    IF S = {} THEN <<>>
    ELSE LET x == CHOOSE y \in S : TRUE IN <<x>> \o SetToSeq(S \ {x})

\* config.Table: Name and Dependencies (Columns do not steer control flow).
TableSpace == {[name |-> n, deps |-> SetToSeq(d)] : n \in TableNames, d \in SUBSET DepNames}

\* Every table list up to renaming: table names are uninterpreted, so each
\* list is a renaming of one whose i-th table carries one of the first i names
\* of the pool.  Two entries may carry the same name.
ListSpace ==
    UNION {{c \in [1..n -> TableSpace] :
                \A i \in 1..n : \E j \in 1..i : c[i].name = NamePool[j]} :
           n \in 1..MaxTables}

\* The lists whose names are unique, as the configuration format intends
\* (the name is the key of a table).
ConfigSpace == {c \in ListSpace : \A i \in DOMAIN c : c[i].name = NamePool[i]}

VARIABLES
    tables,          \* config.Tables
    batchSize,       \* config.BatchSize
    driver,          \* config.Source.Driver
    rows,            \* source database: row count of each table name
    progress,        \* progress map: name -> [migrated, total]
    processedTables, \* map[string]bool of main(), as the set of its keys
    mainPc,          \* position of main()
    countIdx,        \* index of the row-count loop
    tablesToProcess, \* result of FilterTables in this iteration (table indices)
    dispatchIdx,     \* index of the dispatch loop
    wg,              \* sync.WaitGroup counter
    waves,           \* iterations of the scheduler loop begun (saturating)
    taskPc,          \* position of each table's goroutine
    taskWave,        \* iteration in which each table was dispatched
    dispatched,      \* how often each table was dispatched (saturating at 2)
    offset,          \* offset cursor of each task
    page,            \* rows of the page each task fetched last
    pages,           \* page queries each task has issued (saturating)
    inserted,        \* rows each task has inserted into the target
    failed,          \* some database call has returned an error
    halted,          \* os.Exit has ended the process
    errStage,        \* the call whose error each task passed to log.Fatalf
    ticks,           \* ticks the tickers have sent so far
    tick,            \* ticks waiting in the channel of each task's ticker
    repPc,           \* position of each task's reporter goroutine
    lastReport,      \* the report printed last for each task's table
    finalReports,    \* the reports each task printed itself, after its loop
    columnValues,    \* the column values rows.Scan stored for one row
    stringValues     \* the literals the serialization loop made of them

vars == <<tables, batchSize, driver, rows, progress, processedTables, mainPc,
          countIdx, tablesToProcess, dispatchIdx, wg, waves, taskPc, taskWave,
          dispatched, offset, page, pages, inserted, failed, halted, errStage,
          ticks, tick, repPc, lastReport, finalReports, columnValues, stringValues>>

cfgVars == <<tables, batchSize, driver, rows>>
mainVars == <<processedTables, mainPc, countIdx, tablesToProcess, dispatchIdx, waves>>
taskVars == <<taskPc, offset, page, pages, inserted>>
repVars == <<ticks, tick, repPc, lastReport, finalReports>>
rowVars == <<columnValues, stringValues>>

Idx == 1..Len(tables)

PagesCap == MaxRows + 2


(* ------------------------- utils.FilterTables -------------------------- *)

\* DepsReady without the skip of the table's own name, as in the older
\* filterTables of main.go.
RECURSIVE DepsReadyNoSelfSkip(_, _, _, _)
DepsReadyNoSelfSkip(deps, k, name, processed) ==
    IF k > Len(deps) THEN TRUE
    ELSE IF deps[k] \notin processed THEN FALSE
    ELSE DepsReadyNoSelfSkip(deps, k + 1, name, processed)

\* The inner loop of FilterTables over table.Dependencies, from position k:
\* a dependency equal to the table's own name is skipped, the first other
\* dependency that is not processed ends the loop with ready = false.
RECURSIVE DepsReady(_, _, _, _)
DepsReady(deps, k, name, processed) ==
    IF k > Len(deps) THEN TRUE
    ELSE IF deps[k] = name THEN DepsReady(deps, k + 1, name, processed)
    ELSE IF deps[k] \notin processed THEN FALSE
    ELSE DepsReady(deps, k + 1, name, processed)

\* FilterFrom without the skip of processed tables.
RECURSIVE FilterFromNoProcessedSkip(_, _, _, _)
FilterFromNoProcessedSkip(tbls, processed, i, result) ==
    IF i > Len(tbls) THEN result
    ELSE IF DepsReady(tbls[i].deps, 1, tbls[i].name, processed)
         THEN FilterFromNoProcessedSkip(tbls, processed, i + 1, Append(result, i))
    ELSE FilterFromNoProcessedSkip(tbls, processed, i + 1, result)

\* The outer loop of FilterTables from position i, appending to result.
\* A table is identified by its index in the configured list.
RECURSIVE FilterFrom(_, _, _, _)
FilterFrom(tbls, processed, i, result) ==
    IF i > Len(tbls) THEN result
    ELSE IF tbls[i].name \in processed
         THEN FilterFrom(tbls, processed, i + 1, result)
    ELSE IF DepsReady(tbls[i].deps, 1, tbls[i].name, processed)
         THEN FilterFrom(tbls, processed, i + 1, Append(result, i))
    ELSE FilterFrom(tbls, processed, i + 1, result)

\* FilterTables that returns every unprocessed table, ready or not.
FilterTablesIgnoringDeps(tbls, processed) ==
    SelectSeq([i \in 1..Len(tbls) |-> i], LAMBDA i : tbls[i].name \notin processed)

FilterTables(tbls, processed) == FilterFrom(tbls, processed, 1, <<>>)

(* ------------------------- the paginated query ------------------------- *)

\* The rows of a source table of `total` rows, in the engine's stable order,
\* numbered as ROWNUM / ROW_NUMBER() numbers them.
SourceRows(total) == [r \in 1..total |-> r]

\* GodrorPage with rnum >= offset in the outer select.
GodrorPageFromOffset(total, off, b) ==
    LET inner == SubSeq(SourceRows(total), 1, Min(total, off + b))
    IN  SelectSeq(inner, LAMBDA r : r >= off)

\* godror: the inner select keeps ROWNUM <= offset + batchSize, the outer
\* select keeps rnum > offset.
GodrorPage(total, off, b) ==
    LET inner == SubSeq(SourceRows(total), 1, Min(total, off + b))
    IN  SelectSeq(inner, LAMBDA r : r > off)

\* postgres: WHERE rnum <= offset + batchSize, then OFFSET offset.
PostgresPage(total, off, b) ==
    LET kept == SelectSeq(SourceRows(total), LAMBDA r : r <= off + b)
    IN  SubSeq(kept, off + 1, Len(kept))

PageQuery(drv, total, off, b) ==
    IF drv = "godror" THEN GodrorPage(total, off, b)
    ELSE PostgresPage(total, off, b)

(* --------------------------- progress.Print ---------------------------- *)

\* No report has been printed.
NoReport == [by |-> "nobody"]

\* The line carries no "Estimated time left".
NoEstimate == [shown |-> FALSE]

\* float64(migratedRows) / float64(p.Total) * 100 as the verb %.2f prints it,
\* in hundredths of a percent.  IEEE 754 division does not fault: 0/0 is NaN
\* and x/0 is +Inf for x > 0.
CompletionPercentage(migratedRows, total) ==
    IF total = 0
    THEN [class |-> IF migratedRows = 0 THEN "NaN" ELSE "+Inf"]
    ELSE [class |-> "finite",
          hundredths |-> (2 * 10000 * migratedRows + total) \div (2 * total)]

\* ProgressReport without the test of migratedRows, as printProgress of the
\* older main.go: the integer division elapsedTime / time.Duration(0) panics.
ProgressReportUnguarded(tableName, prog, elapsedTime) ==
    LET p == prog[tableName]
        migratedRows == p.migrated
        remainingRows == p.total - migratedRows
    IN  [table |-> tableName,
         migrated |-> migratedRows,
         total |-> p.total,
         percentage |-> CompletionPercentage(migratedRows, p.total),
         estimate |-> IF migratedRows = 0
                      THEN [shown |-> TRUE, panic |-> TRUE]
                      ELSE [shown |-> TRUE,
                            seconds |-> remainingRows
                                            * (elapsedTime \div migratedRows)]]

\* The line progress.Print writes for tableName: the counter is loaded once,
\* the percentage is computed unconditionally, the estimate
\* remainingRows * (elapsedTime / migratedRows), an integer division of
\* time.Duration, only in the branch migratedRows != 0.
ProgressReport(tableName, prog, elapsedTime) ==
    LET p == prog[tableName]
        migratedRows == p.migrated
        remainingRows == p.total - migratedRows
    IN  [table |-> tableName,
         migrated |-> migratedRows,
         total |-> p.total,
         percentage |-> CompletionPercentage(migratedRows, p.total),
         estimate |-> IF migratedRows # 0
                      THEN [shown |-> TRUE,
                            seconds |-> remainingRows
                                            * (elapsedTime \div migratedRows)]
                      ELSE NoEstimate]

(* ---------------------- serialization of a row ------------------------- *)

\* Texts are sequences of tokens.
Texts == {<<>>, <<"a">>, <<"NULL">>, <<"nil">>, <<"<nil>">>}

\* A time.Time: the wall clock (day of January 2006, hour) in a zone
\* `zone` hours east of UTC.
Times == [kind : {"time"}, day : 2..3, hour : {0, 12, 23}, zone : {-1, 0, 1}]

\* What rows.Scan can store in an interface{}: nil, a time.Time, or a value
\* of another type (a string, an int64).
ColumnValueSpace ==
    {[kind |-> "nil"]} \cup Times
        \cup [kind : {"string"}, text : Texts]
        \cup [kind : {"int64"}, n : {0, 7}]

\* t.UTC(): the same instant with the location set to UTC.
UTC(t) ==
    LET h == t.day * 24 + t.hour - t.zone
    IN  [kind |-> "time", day |-> h \div 24, hour |-> h % 24, zone |-> 0]

TwoDigits(n) == <<ToString(n \div 10), ToString(n % 10)>>

\* t.Format("'2006-01-02 15:04:05.00 +00:00'"): the quotes and "+00:00" are
\* literal text of the layout, whatever the location of t is.
Format(t) ==
    <<"'", "2006-01-">> \o TwoDigits(t.day) \o <<" ">> \o TwoDigits(t.hour)
        \o <<":00:00.00", " ", "+00:00", "'">>

\* fmt.Sprint(v) of a value that is neither nil nor a time.Time.
Sprint(v) == IF v.kind = "string" THEN v.text ELSE <<ToString(v.n)>>

\* StringValue without the nil case, as the older migrateTable of utils.go
\* (fmt.Sprint(nil) is "<nil>"), and without t.UTC().
StringValueSprintOnly(v) ==
    IF v.kind = "nil" THEN <<"'", "<nil>", "'">>
    ELSE IF v.kind = "time" THEN Format(v)
    ELSE <<"'">> \o Sprint(v) \o <<"'">>

\* One iteration of the loop over columnValues.
StringValue(v) ==
    IF v.kind = "nil" THEN <<"NULL">>
    ELSE IF v.kind = "time" THEN Format(UTC(v))
    ELSE <<"'">> \o Sprint(v) \o <<"'">>

\* utils.JoinColumns: strings.Join(columns, ", ").
RECURSIVE JoinColumns(_)
JoinColumns(columns) ==
    IF columns = <<>> THEN <<>>
    ELSE IF Len(columns) = 1 THEN columns[1]
    ELSE columns[1] \o <<", ">> \o JoinColumns(Tail(columns))

\* fmt.Sprintf("(%s)", utils.JoinColumns(stringValues)).
RowLiteral(strs) == <<"(">> \o JoinColumns(strs) \o <<")">>

(* ------------------------------- Init ---------------------------------- *)

\* The state main() starts from, for a table list drawn from `lists`, a batch
\* size from `batchSizes` and source row counts from `rowCounts`.
InitOf(lists, batchSizes, rowCounts) ==
    /\ tables \in lists
    /\ batchSize \in batchSizes
    /\ driver \in Drivers
    /\ rows \in rowCounts
    /\ progress = <<>>
    /\ processedTables = {}
    /\ mainPc = "count"
    /\ countIdx = 1
    /\ tablesToProcess = <<>>
    /\ dispatchIdx = 1
    /\ wg = 0
    /\ waves = 0
    /\ taskPc = [i \in 1..Len(tables) |-> "idle"]
    /\ taskWave = [i \in 1..Len(tables) |-> 0]
    /\ dispatched = [i \in 1..Len(tables) |-> 0]
    /\ offset = [i \in 1..Len(tables) |-> 0]
    /\ page = [i \in 1..Len(tables) |-> <<>>]
    /\ pages = [i \in 1..Len(tables) |-> 0]
    /\ inserted = [i \in 1..Len(tables) |-> <<>>]
    /\ failed = FALSE
    /\ halted = FALSE
    /\ errStage = [i \in 1..Len(tables) |-> "none"]
    /\ ticks = 0
    /\ tick = [i \in 1..Len(tables) |-> 0]
    /\ repPc = [i \in 1..Len(tables) |-> "idle"]
    /\ lastReport = [i \in 1..Len(tables) |-> NoReport]
    /\ finalReports = [i \in 1..Len(tables) |-> <<>>]
    /\ columnValues = <<>>
    /\ stringValues = <<>>

\* The state main() starts from, for a configuration within the bounds.
InitFrom(lists) == InitOf(lists, 0..MaxBatch, [TableNames -> 0..MaxRows])

Init == InitFrom(ConfigSpace)

(* ------------------------------ main() --------------------------------- *)

\* CountRows that logs the error of GetRowCount and goes on to the next table.
CountRowsLogOnly ==
    /\ ~halted
    /\ mainPc = "count"
    /\ countIdx <= Len(tables)
    /\ \/ /\ failed' = TRUE
          /\ UNCHANGED progress
       \/ /\ LET name == tables[countIdx].name
             IN  progress' = [n \in (DOMAIN progress) \cup {name} |->
                                IF n = name
                                THEN [migrated |-> 0, total |-> rows[name]]
                                ELSE progress[n]]
          /\ UNCHANGED failed
    /\ countIdx' = countIdx + 1
    /\ UNCHANGED <<cfgVars, rowVars, errStage, repVars, mainPc, processedTables,
                   tablesToProcess, dispatchIdx, wg, waves, taskPc, taskWave,
                   dispatched, offset, page, pages, inserted, halted>>

\* One iteration of the row-count loop: GetRowCount, log.Fatalf on error,
\* else a fresh counter {migrated: 0, total: rowCount} under the table's name.
CountRows ==
    /\ ~halted
    /\ mainPc = "count"
    /\ countIdx <= Len(tables)
    /\ \/ /\ mainPc' = "fatal"
          /\ failed' = TRUE
          /\ UNCHANGED <<progress, countIdx>>
       \/ /\ LET name == tables[countIdx].name
             IN  progress' = [n \in (DOMAIN progress) \cup {name} |->
                                IF n = name
                                THEN [migrated |-> 0, total |-> rows[name]]
                                ELSE progress[n]]
          /\ countIdx' = countIdx + 1
          /\ UNCHANGED <<mainPc, failed>>
    /\ UNCHANGED <<cfgVars, rowVars, errStage, repVars,
                   processedTables, tablesToProcess, dispatchIdx, wg,
                   waves, taskPc, taskWave, dispatched, offset, page, pages,
                   inserted, halted>>

\* The row-count loop is over: processedTables is made, the scheduler loop begins.
CountDone ==
    /\ ~halted
    /\ mainPc = "count"
    /\ countIdx > Len(tables)
    /\ mainPc' = "loop"
    /\ UNCHANGED <<cfgVars, rowVars, errStage, repVars,
                   progress, processedTables, countIdx, tablesToProcess,
                   dispatchIdx, wg, waves, taskVars, taskWave, dispatched,
                   failed, halted>>

\* for len(processedTables) < len(config.Tables): the ready set is computed
\* and the dispatch loop begins.
LoopEnter ==
    /\ ~halted
    /\ mainPc = "loop"
    /\ Cardinality(processedTables) < Len(tables)
    /\ tablesToProcess' = FilterTables(tables, processedTables)
    /\ dispatchIdx' = 1
    /\ waves' = Min(waves + 1, MaxWaves)
    /\ mainPc' = "dispatch"
    /\ UNCHANGED <<cfgVars, rowVars, errStage, repVars,
                   progress, processedTables, countIdx, wg, taskVars,
                   taskWave, dispatched, failed, halted>>

\* LoopExit with the loop condition len(processedTables) < len(config.Tables) - 1.
LoopExitOneShort ==
    /\ ~halted
    /\ mainPc = "loop"
    /\ ~(Cardinality(processedTables) < Len(tables) - 1)
    /\ mainPc' = "done"
    /\ UNCHANGED <<cfgVars, rowVars, errStage, repVars,
                   progress, processedTables, countIdx, tablesToProcess,
                   dispatchIdx, wg, waves, taskVars, taskWave, dispatched,
                   failed, halted>>

\* The loop condition is false: "Data migration complete." is printed and
\* main() returns, which ends the process.
LoopExit ==
    /\ ~halted
    /\ mainPc = "loop"
    /\ ~(Cardinality(processedTables) < Len(tables))
    /\ mainPc' = "done"
    /\ UNCHANGED <<cfgVars, rowVars, errStage, repVars,
                   progress, processedTables, countIdx, tablesToProcess,
                   dispatchIdx, wg, waves, taskVars, taskWave, dispatched,
                   failed, halted>>

\* Dispatch without wg.Add(1).
DispatchWithoutAdd ==
    /\ ~halted
    /\ mainPc = "dispatch"
    /\ dispatchIdx <= Len(tablesToProcess)
    /\ LET i == tablesToProcess[dispatchIdx]
       IN  /\ taskPc' = [taskPc EXCEPT ![i] = "start"]
           /\ taskWave' = [taskWave EXCEPT ![i] = waves]
           /\ dispatched' = [dispatched EXCEPT ![i] = Min(@ + 1, 2)]
           /\ processedTables' = processedTables \cup {tables[i].name}
    /\ dispatchIdx' = dispatchIdx + 1
    /\ UNCHANGED <<cfgVars, rowVars, errStage, repVars, progress, mainPc, wg,
                   countIdx, tablesToProcess, waves, offset, page, pages,
                   inserted, failed, halted>>

\* One iteration of the dispatch loop: wg.Add(1), go migrateTable(table),
\* processedTables[table.Name] = true.
Dispatch ==
    /\ ~halted
    /\ mainPc = "dispatch"
    /\ dispatchIdx <= Len(tablesToProcess)
    /\ LET i == tablesToProcess[dispatchIdx]
       IN  /\ wg' = wg + 1
           /\ taskPc' = [taskPc EXCEPT ![i] = "start"]
           /\ taskWave' = [taskWave EXCEPT ![i] = waves]
           /\ dispatched' = [dispatched EXCEPT ![i] = Min(@ + 1, 2)]
           /\ processedTables' = processedTables \cup {tables[i].name}
    /\ dispatchIdx' = dispatchIdx + 1
    /\ UNCHANGED <<cfgVars, rowVars, errStage, repVars,
                   progress, mainPc, countIdx, tablesToProcess, waves,
                   offset, page, pages, inserted, failed, halted>>

\* Wait without wg.Wait(): the loop goes on while tasks run.
WaitWithoutBarrier ==
    /\ ~halted
    /\ mainPc = "dispatch"
    /\ dispatchIdx > Len(tablesToProcess)
    /\ mainPc' = "loop"
    /\ UNCHANGED <<cfgVars, rowVars, errStage, repVars,
                   progress, processedTables, countIdx, tablesToProcess,
                   dispatchIdx, wg, waves, taskVars, taskWave, dispatched,
                   failed, halted>>

\* The dispatch loop is over and wg.Wait() returns: no task is running.
Wait ==
    /\ ~halted
    /\ mainPc = "dispatch"
    /\ dispatchIdx > Len(tablesToProcess)
    /\ wg = 0
    /\ mainPc' = "loop"
    /\ UNCHANGED <<cfgVars, rowVars, errStage, repVars,
                   progress, processedTables, countIdx, tablesToProcess,
                   dispatchIdx, wg, waves, taskVars, taskWave, dispatched,
                   failed, halted>>

(* --------------------------- MigrateTable ------------------------------ *)

\* The goroutine begins MigrateTable: the ticker is made, offset = 0.
TaskBegin(i) ==
    /\ ~halted
    /\ taskPc[i] = "start"
    /\ taskPc' = [taskPc EXCEPT ![i] = "query"]
    /\ offset' = [offset EXCEPT ![i] = 0]
    /\ page' = [page EXCEPT ![i] = <<>>]
    /\ tick' = [tick EXCEPT ![i] = 0]
    /\ repPc' = [repPc EXCEPT ![i] = "wait"]
    /\ UNCHANGED <<cfgVars, rowVars, errStage, ticks, lastReport, finalReports,
                   progress, mainVars, wg, taskWave, dispatched, pages,
                   inserted, failed, halted>>

\* sourceDB.Query and the rows.Next/rows.Scan loop of one page.  The query
\* may fail; a scan may fail when there is a row to scan.
QueryPage(i) ==
    /\ ~halted
    /\ taskPc[i] = "query"
    /\ LET rs == PageQuery(driver, rows[tables[i].name], offset[i], batchSize)
       IN  \/ /\ taskPc' = [taskPc EXCEPT ![i] = "fatal"]
              /\ errStage' = [errStage EXCEPT ![i] = "query"]
              /\ failed' = TRUE
              /\ UNCHANGED <<page, pages>>
           \/ /\ rs # <<>>
              /\ taskPc' = [taskPc EXCEPT ![i] = "fatal"]
              /\ errStage' = [errStage EXCEPT ![i] = "scan"]
              /\ failed' = TRUE
              /\ pages' = [pages EXCEPT ![i] = Min(@ + 1, PagesCap)]
              /\ UNCHANGED page
           \/ /\ page' = [page EXCEPT ![i] = rs]
              /\ pages' = [pages EXCEPT ![i] = Min(@ + 1, PagesCap)]
              /\ taskPc' = [taskPc EXCEPT ![i] =
                               IF Len(rs) > 0 THEN "insert" ELSE "close"]
              /\ UNCHANGED <<failed, errStage>>
    /\ UNCHANGED <<cfgVars, rowVars, repVars,
                   progress, mainVars, wg, taskWave, dispatched, offset,
                   inserted, halted>>

\* InsertBatch that logs the insert error and goes on.
InsertBatchLogOnly(i) ==
    /\ ~halted
    /\ taskPc[i] = "insert"
    /\ \/ /\ taskPc' = [taskPc EXCEPT ![i] = "close"]
          /\ errStage' = [errStage EXCEPT ![i] = "insert"]
          /\ failed' = TRUE
          /\ UNCHANGED inserted
       \/ /\ inserted' = [inserted EXCEPT ![i] = @ \o page[i]]
          /\ taskPc' = [taskPc EXCEPT ![i] = "add"]
          /\ UNCHANGED <<failed, errStage>>
    /\ UNCHANGED <<cfgVars, rowVars, repVars,
                   progress, mainVars, wg, taskWave, dispatched, offset,
                   page, pages, halted>>

\* InsertBatch with the counter incremented before targetDB.Exec.
InsertBatchCountFirst(i) ==
    /\ ~halted
    /\ taskPc[i] = "insert"
    /\ progress' = [progress EXCEPT ![tables[i].name].migrated = @ + Len(page[i])]
    /\ \/ /\ taskPc' = [taskPc EXCEPT ![i] = "fatal"]
          /\ errStage' = [errStage EXCEPT ![i] = "insert"]
          /\ failed' = TRUE
          /\ UNCHANGED inserted
       \/ /\ inserted' = [inserted EXCEPT ![i] = @ \o page[i]]
          /\ taskPc' = [taskPc EXCEPT ![i] = "close"]
          /\ UNCHANGED <<failed, errStage>>
    /\ UNCHANGED <<cfgVars, rowVars, repVars, mainVars, wg, taskWave, dispatched,
                   offset, page, pages, halted>>

\* if rowBatch > 0: targetDB.Exec of the bulk insert, log.Fatalf on error.
InsertBatch(i) ==
    /\ ~halted
    /\ taskPc[i] = "insert"
    /\ \/ /\ taskPc' = [taskPc EXCEPT ![i] = "fatal"]
          /\ errStage' = [errStage EXCEPT ![i] = "insert"]
          /\ failed' = TRUE
          /\ UNCHANGED inserted
       \/ /\ inserted' = [inserted EXCEPT ![i] = @ \o page[i]]
          /\ taskPc' = [taskPc EXCEPT ![i] = "add"]
          /\ UNCHANGED <<failed, errStage>>
    /\ UNCHANGED <<cfgVars, rowVars, repVars,
                   progress, mainVars, wg, taskWave, dispatched, offset,
                   page, pages, halted>>

\* AddMigrated that adds batchSize in place of rowBatch.
AddMigratedBatchSize(i) ==
    /\ ~halted
    /\ taskPc[i] = "add"
    /\ progress' = [progress EXCEPT ![tables[i].name].migrated = @ + batchSize]
    /\ taskPc' = [taskPc EXCEPT ![i] = "close"]
    /\ UNCHANGED <<cfgVars, rowVars, errStage, repVars,
                   mainVars, wg, taskWave, dispatched, offset, page,
                   pages, inserted, failed, halted>>

\* atomic.AddInt64(&progressData[table.Name].Migrated, int64(rowBatch)).
AddMigrated(i) ==
    /\ ~halted
    /\ taskPc[i] = "add"
    /\ progress' = [progress EXCEPT ![tables[i].name].migrated = @ + Len(page[i])]
    /\ taskPc' = [taskPc EXCEPT ![i] = "close"]
    /\ UNCHANGED <<cfgVars, rowVars, errStage, repVars,
                   mainVars, wg, taskWave, dispatched, offset, page,
                   pages, inserted, failed, halted>>

\* LastPage with <= in place of <.
LastPageAtMost(rowBatch, b) == rowBatch <= b

\* if rowBatch < batchSize { break }
LastPage(rowBatch, b) == rowBatch < b

\* rows.Close(), the rows.Err() check, then the end of the loop body:
\* break when rowBatch < batchSize, else offset += batchSize.
ClosePage(i) ==
    /\ ~halted
    /\ taskPc[i] = "close"
    /\ \/ /\ taskPc' = [taskPc EXCEPT ![i] = "fatal"]
          /\ errStage' = [errStage EXCEPT ![i] = "rows"]
          /\ failed' = TRUE
          /\ UNCHANGED offset
       \/ /\ LastPage(Len(page[i]), batchSize)
          /\ taskPc' = [taskPc EXCEPT ![i] = "final"]
          /\ UNCHANGED <<offset, failed, errStage>>
       \/ /\ ~LastPage(Len(page[i]), batchSize)
          /\ offset' = [offset EXCEPT ![i] = @ + batchSize]
          /\ taskPc' = [taskPc EXCEPT ![i] = "query"]
          /\ UNCHANGED <<failed, errStage>>
    /\ UNCHANGED <<cfgVars, rowVars, repVars,
                   progress, mainVars, wg, taskWave, dispatched, page,
                   pages, inserted, halted>>

\* After the loop: progressTicker.Stop().  No tick is sent after it; the
\* channel is not closed and a tick already in it stays there.
StopTicker(i) ==
    /\ ~halted
    /\ taskPc[i] = "final"
    /\ taskPc' = [taskPc EXCEPT ![i] = "report"]
    /\ UNCHANGED <<cfgVars, rowVars, errStage, repVars, progress, mainVars, wg,
                   taskWave, dispatched, offset, page, pages, inserted, failed,
                   halted>>

\* TaskFinish that returns without the final progress.Print.
TaskFinishWithoutReport(i) ==
    /\ ~halted
    /\ taskPc[i] = "report"
    /\ taskPc' = [taskPc EXCEPT ![i] = "done"]
    /\ wg' = wg - 1
    /\ UNCHANGED <<cfgVars, rowVars, errStage, repVars, progress, mainVars,
                   taskWave, dispatched, offset, page, pages, inserted, failed,
                   halted>>

\* TaskFinish with the final progress.Print called twice.
TaskFinishReportingTwice(i) ==
    /\ ~halted
    /\ taskPc[i] = "report"
    /\ \E elapsedTime \in 0..MaxElapsed :
          LET line == ProgressReport(tables[i].name, progress, elapsedTime)
          IN  /\ lastReport' = [lastReport EXCEPT ![i] =
                                   [by |-> "task", line |-> line]]
              /\ finalReports' = [finalReports EXCEPT ![i] = @ \o <<line, line>>]
    /\ taskPc' = [taskPc EXCEPT ![i] = "done"]
    /\ wg' = wg - 1
    /\ UNCHANGED <<cfgVars, rowVars, errStage, ticks, tick, repPc, progress,
                   mainVars, taskWave, dispatched, offset, page, pages, inserted,
                   failed, halted>>

\* The final progress.Print, called by the task itself, and the return: the
\* deferred Stop and the deferred wg.Done() of the goroutine run.
TaskFinish(i) ==
    /\ ~halted
    /\ taskPc[i] = "report"
    /\ \E elapsedTime \in 0..MaxElapsed :
          LET line == ProgressReport(tables[i].name, progress, elapsedTime)
          IN  /\ lastReport' = [lastReport EXCEPT ![i] =
                                   [by |-> "task", line |-> line]]
              /\ finalReports' = [finalReports EXCEPT ![i] = Append(@, line)]
    /\ taskPc' = [taskPc EXCEPT ![i] = "done"]
    /\ wg' = wg - 1
    /\ UNCHANGED <<cfgVars, rowVars, errStage, ticks, tick, repPc, progress,
                   mainVars,
                   taskWave, dispatched, offset, page, pages, inserted, failed,
                   halted>>

(* ------------------ the ticker and the reporter goroutine --------------- *)

\* The ticker of task i exists and has not been stopped.
TickerRunning(i) ==
    taskPc[i] \in {"query", "insert", "add", "close", "final", "fatal"}

\* A second has passed: the runtime sends a tick on progressTicker.C, a
\* channel of capacity 1; a tick that finds the channel full is dropped.
TickerFire(i) ==
    /\ ~halted
    /\ mainPc # "done"
    /\ TickerRunning(i)
    /\ ticks < MaxTicks
    /\ ticks' = ticks + 1
    /\ tick' = [tick EXCEPT ![i] = Min(@ + 1, 1)]
    /\ UNCHANGED <<cfgVars, rowVars, errStage, repPc, lastReport, finalReports,
                   progress, mainVars, wg, taskVars, taskWave, dispatched,
                   failed, halted>>

\* for range progressTicker.C: the reporter goroutine receives a tick.
ReporterReceive(i) ==
    /\ ~halted
    /\ mainPc # "done"
    /\ repPc[i] = "wait"
    /\ tick[i] = 1
    /\ tick' = [tick EXCEPT ![i] = 0]
    /\ repPc' = [repPc EXCEPT ![i] = "print"]
    /\ UNCHANGED <<cfgVars, rowVars, errStage, ticks, lastReport, finalReports,
                   progress, mainVars, wg, taskVars, taskWave, dispatched,
                   failed, halted>>

\* ReporterPrint with atomic.SwapInt64(&p.Migrated, 0) as the read of the
\* counter.
ReporterPrintSwapping(i) ==
    /\ ~halted
    /\ mainPc # "done"
    /\ repPc[i] = "print"
    /\ \E elapsedTime \in 0..MaxElapsed :
          lastReport' = [lastReport EXCEPT ![i] =
              [by |-> "reporter",
               line |-> ProgressReport(tables[i].name, progress, elapsedTime)]]
    /\ progress' = [progress EXCEPT ![tables[i].name].migrated = 0]
    /\ repPc' = [repPc EXCEPT ![i] = "wait"]
    /\ UNCHANGED <<cfgVars, rowVars, errStage, ticks, tick, finalReports,
                   mainVars, wg, taskVars, taskWave, dispatched, failed, halted>>

\* The body of the reporter's loop: progress.Print, then back to the channel.
ReporterPrint(i) ==
    /\ ~halted
    /\ mainPc # "done"
    /\ repPc[i] = "print"
    /\ \E elapsedTime \in 0..MaxElapsed :
          lastReport' = [lastReport EXCEPT ![i] =
              [by |-> "reporter",
               line |-> ProgressReport(tables[i].name, progress, elapsedTime)]]
    /\ repPc' = [repPc EXCEPT ![i] = "wait"]
    /\ UNCHANGED <<cfgVars, rowVars, errStage, ticks, tick, finalReports, progress,
                   mainVars, wg, taskVars, taskWave, dispatched, failed, halted>>

\* log.Fatalf ends with os.Exit(1): every goroutine stops where it is.
Exit ==
    /\ ~halted
    /\ \/ mainPc = "fatal"
       \/ \E i \in Idx : taskPc[i] = "fatal"
    /\ halted' = TRUE
    /\ UNCHANGED <<cfgVars, rowVars, errStage, repVars,
                   progress, mainVars, wg, taskVars, taskWave,
                   dispatched, failed>>

Next ==
    \/ CountRows
    \/ CountDone
    \/ LoopEnter
    \/ LoopExit
    \/ Dispatch
    \/ Wait
    \/ \E i \in Idx : TaskBegin(i)
    \/ \E i \in Idx : QueryPage(i)
    \/ \E i \in Idx : InsertBatch(i)
    \/ \E i \in Idx : AddMigrated(i)
    \/ \E i \in Idx : ClosePage(i)
    \/ \E i \in Idx : StopTicker(i)
    \/ \E i \in Idx : TaskFinish(i)
    \/ Exit

Spec == Init /\ [][Next]_vars

\* Every goroutine that can take a step eventually takes one.
FairSpec == Spec /\ WF_vars(Next)

\* The program with its tickers and reporter goroutines.  Spec is the part
\* of it in which no ticker fires: every task ends within its first second.
ReportNext ==
    \/ Next
    \/ \E i \in Idx : TickerFire(i)
    \/ \E i \in Idx : ReporterReceive(i)
    \/ \E i \in Idx : ReporterPrint(i)

\* The configurations in which every dependency names another configured
\* table.
ReportConfigs ==
    {c \in ConfigSpace :
        \A i \in DOMAIN c : \A k \in DOMAIN c[i].deps :
            \E j \in DOMAIN c : j # i /\ c[j].name = c[i].deps[k]}

ReportInit == InitFrom(ReportConfigs)

ReportSpec == ReportInit /\ [][ReportNext]_vars

(* ------------------------- notions the claims use ---------------------- *)

Range(f) == {f[k] : k \in DOMAIN f}

NameOf(i) == tables[i].name

DepsOf(i) == Range(tables[i].deps)

AllNames == {NameOf(i) : i \in Idx}

UniqueNames == \A i, j \in Idx : NameOf(i) = NameOf(j) => i = j

\* Table i lists the name of another table j of the list.
DependsOn(i, j) == NameOf(j) \in DepsOf(i) /\ NameOf(j) # NameOf(i)

SelfDependent(i) == NameOf(i) \in DepsOf(i)

\* The tables reachable from the set S along DependsOn in at most n steps.
RECURSIVE Reach(_, _)
Reach(S, n) ==
    IF n = 0 THEN S
    ELSE Reach(S \cup {j \in Idx : \E i \in S : DependsOn(i, j)}, n - 1)

\* No table reaches itself along dependencies on other tables.
NoCycleAmongOthers ==
    \A i \in Idx :
        i \notin Reach({j \in Idx : DependsOn(i, j)}, Len(tables))

NoSelfDependency == \A i \in Idx : ~SelfDependent(i)

Acyclic == NoCycleAmongOthers /\ NoSelfDependency

AllDepsPresent == \A i \in Idx : DepsOf(i) \subseteq AllNames

Started(i) == taskPc[i] # "idle"

Finished(i) == taskPc[i] = "done"

(* -------------------------------- C1 ----------------------------------- *)

\* C1: with unique names and an acyclic dependency relation, a table whose
\* task has started has every table it depends on (present in the list, not
\* itself) finished.
C1_DepsFinishedBeforeStart ==
    (UniqueNames /\ Acyclic) =>
        \A i, j \in Idx : (Started(i) /\ DependsOn(i, j)) => Finished(j)

\* A dependent table's task is running after its dependency finished.
C1_Witness ==
    /\ UniqueNames /\ Acyclic
    /\ \E i, j \in Idx :
          DependsOn(i, j) /\ taskPc[i] = "insert" /\ Finished(j)

(* -------------------------------- C2 ----------------------------------- *)

\* C2: with unique names, an acyclic relation and every dependency present,
\* the loop ends, unless a database call fails, and it ends with every table
\* dispatched exactly once (the dispatch count never decreases), every task
\* finished and the processed set equal to the set of table names.  A batch
\* size below 1 keeps a task from finishing.
C2_EachOnceAndTerminates ==
    (UniqueNames /\ Acyclic /\ AllDepsPresent /\ batchSize >= 1) =>
        <>(\/ /\ mainPc = "done"
              /\ \A i \in Idx : dispatched[i] = 1 /\ Finished(i)
              /\ processedTables = AllNames
           \/ failed)

\* The loop has ended after two waves.
C2_Witness ==
    /\ UniqueNames /\ Acyclic /\ AllDepsPresent
    /\ Len(tables) = 2
    /\ \E i, j \in Idx : DependsOn(i, j)
    /\ mainPc = "done"
    /\ waves = 2

(* -------------------------------- C3 ----------------------------------- *)

\* FilterTables applied to any table list and any processed set: the call
\* main() makes, with the processed set drawn freely.
FilterInit ==
    /\ tables \in ListSpace
    /\ processedTables \in SUBSET DepNames
    /\ batchSize = 1
    /\ driver = "godror"
    /\ rows = [n \in TableNames |-> 0]
    /\ progress = <<>>
    /\ mainPc = "call"
    /\ countIdx = 1
    /\ tablesToProcess = <<>>
    /\ dispatchIdx = 1
    /\ wg = 0
    /\ waves = 0
    /\ taskPc = [i \in 1..Len(tables) |-> "idle"]
    /\ taskWave = [i \in 1..Len(tables) |-> 0]
    /\ dispatched = [i \in 1..Len(tables) |-> 0]
    /\ offset = [i \in 1..Len(tables) |-> 0]
    /\ page = [i \in 1..Len(tables) |-> <<>>]
    /\ pages = [i \in 1..Len(tables) |-> 0]
    /\ inserted = [i \in 1..Len(tables) |-> <<>>]
    /\ failed = FALSE
    /\ halted = FALSE
    /\ errStage = [i \in 1..Len(tables) |-> "none"]
    /\ ticks = 0
    /\ tick = [i \in 1..Len(tables) |-> 0]
    /\ repPc = [i \in 1..Len(tables) |-> "idle"]
    /\ lastReport = [i \in 1..Len(tables) |-> NoReport]
    /\ finalReports = [i \in 1..Len(tables) |-> <<>>]
    /\ columnValues = <<>>
    /\ stringValues = <<>>

FilterCall ==
    /\ mainPc = "call"
    /\ tablesToProcess' = FilterTables(tables, processedTables)
    /\ mainPc' = "returned"
    /\ UNCHANGED <<cfgVars, rowVars, errStage, repVars,
                   progress, processedTables, countIdx, dispatchIdx, wg,
                   waves, taskVars, taskWave, dispatched, failed, halted>>

FilterSpec == FilterInit /\ [][FilterCall]_vars

\* Table i is not processed and each of its dependencies is its own name or
\* is processed.
ReadyTable(i, processed) ==
    /\ NameOf(i) \notin processed
    /\ \A d \in DepsOf(i) : d = NameOf(i) \/ d \in processed

\* C3: FilterTables returns, in input order and without repetition, exactly
\* the tables that are not processed and whose every dependency other than
\* the table's own name is processed.
C3_FilterExact ==
    mainPc = "returned" =>
        /\ \A k \in 1..(Len(tablesToProcess) - 1) :
              tablesToProcess[k] < tablesToProcess[k + 1]
        /\ Range(tablesToProcess) = {i \in Idx : ReadyTable(i, processedTables)}

\* A call that returns one table, a self-dependent one with a processed
\* dependency, and omits another whose dependency is not processed.
C3_Witness ==
    /\ mainPc = "returned"
    /\ Len(tables) = 2
    /\ Len(tablesToProcess) = 1
    /\ \E i \in Range(tablesToProcess) :
          SelfDependent(i) /\ Cardinality(DepsOf(i)) = 2
    /\ \E i \in Idx : NameOf(i) \notin processedTables /\ ~ReadyTable(i, processedTables)

(* -------------------------------- C4 ----------------------------------- *)

\* The dependencies of table i that name another table of the list.
InSetDeps(i) == (DepsOf(i) \cap AllNames) \ {NameOf(i)}

\* The ready set has just been computed.
JustFiltered == mainPc = "dispatch" /\ dispatchIdx = 1

\* C4: a dependency naming a table absent from the list never blocks: when
\* the ready set is computed, every unprocessed table whose in-list
\* dependencies are all processed is in it.
C4_AbsentNeverBlocks ==
    JustFiltered =>
        \A i \in Idx :
            (NameOf(i) \notin processedTables /\ InSetDeps(i) \subseteq processedTables)
                => i \in Range(tablesToProcess)

(* -------------------------------- C5 ----------------------------------- *)

Max(S) == CHOOSE x \in S : \A y \in S : y <= x

\* The last wave in which a table that i depends on was dispatched, 0 if
\* i depends on no other table.
LastDepWave(i) == Max({taskWave[j] : j \in {k \in Idx : DependsOn(i, k)}} \cup {0})

MutualCycle ==
    /\ Len(tables) = 2
    /\ DependsOn(1, 2)
    /\ DependsOn(2, 1)

\* C6: with two tables that depend on each other, neither is ever dispatched
\* and the loop never ends: "Data migration complete." is never printed.
C6_MutualCycleStalls ==
    MutualCycle =>
        /\ \A i \in Idx : dispatched[i] = 0 /\ taskPc[i] = "idle"
        /\ processedTables = {}
        /\ mainPc # "done"

\* The loop has gone around MaxWaves times with nothing dispatched.
C6_Witness ==
    /\ MutualCycle
    /\ waves = MaxWaves
    /\ mainPc = "loop"
    /\ ~halted

(* -------------------------------- C7 ----------------------------------- *)

TotalOf(i) == rows[NameOf(i)]

CeilDiv(a, b) == (a + b - 1) \div b

LoopExited(i) == taskPc[i] \in {"final", "report", "done"}

\* C7 as claimed: when the fetch loop has exited, with batch size b >= 1, it
\* has issued ceil(total / b) page queries and the last page has total mod b
\* rows, or b rows when total is a positive multiple of b.
C7_CeilPages ==
    \A i \in Idx :
        (batchSize >= 1 /\ LoopExited(i)) =>
            /\ pages[i] = CeilDiv(TotalOf(i), batchSize)
            /\ Len(page[i]) = IF TotalOf(i) > 0 /\ TotalOf(i) % batchSize = 0
                              THEN batchSize
                              ELSE TotalOf(i) % batchSize

\* C7 amended: the loop has issued floor(total / b) + 1 page queries and the
\* last page has total mod b rows: when total is a multiple of b (0 included)
\* one more query is issued and returns no row.
C7_FloorPlusOnePages ==
    \A i \in Idx :
        (batchSize >= 1 /\ LoopExited(i)) =>
            /\ pages[i] = (TotalOf(i) \div batchSize) + 1
            /\ Len(page[i]) = TotalOf(i) % batchSize

\* A table of two rows fetched with batch size 2: a full page, then an empty one.
C7_Witness ==
    \E i \in Idx :
        /\ batchSize = 2 /\ TotalOf(i) = 2
        /\ LoopExited(i)
        /\ pages[i] = 2 /\ page[i] = <<>>

(* -------------------------------- C8 ----------------------------------- *)

\* The rows after position lo up to position hi of a table of `total` rows.
RowsBetween(total, lo, hi) ==
    [k \in 1..(Min(total, hi) - Min(total, lo)) |-> lo + k]

\* C8: with batch size b >= 1 the k-th query asks for the rows (k-1)b+1..kb:
\* the offset is b times the number of full pages fetched, the page fetched is
\* exactly the source rows of that window, the rows inserted so far are the
\* source rows 1..n in order, each once, and all of them once the loop exits.
C8_WindowsPartitionRows ==
    \A i \in Idx :
        batchSize >= 1 =>
            /\ taskPc[i] = "query" =>
                  /\ offset[i] = pages[i] * batchSize
                  /\ inserted[i] = SourceRows(Min(TotalOf(i), offset[i]))
            /\ taskPc[i] \in {"insert", "add", "close"} =>
                  /\ offset[i] = (pages[i] - 1) * batchSize
                  /\ page[i] = RowsBetween(TotalOf(i), offset[i], offset[i] + batchSize)
            /\ taskPc[i] = "insert" =>
                  inserted[i] = SourceRows(Min(TotalOf(i), offset[i]))
            /\ taskPc[i] \in {"add", "close"} =>
                  inserted[i] = SourceRows(Min(TotalOf(i), offset[i] + batchSize))
            /\ LoopExited(i) => inserted[i] = SourceRows(TotalOf(i))

\* A table of two rows migrated in two full pages of one row.
C8_Witness ==
    \E i \in Idx :
        /\ batchSize = 1 /\ TotalOf(i) = 2
        /\ Finished(i)
        /\ inserted[i] = <<1, 2>>
        /\ offset[i] = 2

(* -------------------------------- C9 ----------------------------------- *)

Counted(i) == NameOf(i) \in DOMAIN progress

MigratedOf(i) == progress[NameOf(i)].migrated

\* C9 as claimed: in every state the counter of a table equals the number of
\* rows of its inserted batches, is at most total, and equals total once the
\* task has finished.
C9_CounterEqualsInserted ==
    UniqueNames =>
        \A i \in Idx :
            Counted(i) =>
                /\ MigratedOf(i) = Len(inserted[i])
                /\ MigratedOf(i) <= progress[NameOf(i)].total
                /\ Finished(i) => MigratedOf(i) = progress[NameOf(i)].total

\* C9 amended: the counter never exceeds the rows inserted nor total; it
\* equals the rows inserted except between a successful insert and the
\* increment that follows it, where it is short of the rows of that one
\* batch; it equals total once the task has finished.
C9_CounterLagsByOneBatch ==
    UniqueNames =>
        \A i \in Idx :
            Counted(i) =>
                /\ MigratedOf(i) = IF taskPc[i] = "add"
                                   THEN Len(inserted[i]) - Len(page[i])
                                   ELSE Len(inserted[i])
                /\ Len(inserted[i]) <= progress[NameOf(i)].total
                /\ progress[NameOf(i)].total = TotalOf(i)
                /\ Finished(i) => MigratedOf(i) = progress[NameOf(i)].total

\* The second batch of a table is inserted and its increment is pending.
C9_Witness ==
    /\ UniqueNames
    /\ \E i \in Idx :
          /\ taskPc[i] = "add"
          /\ MigratedOf(i) = 1
          /\ Len(inserted[i]) = 2

(* -------------------------------- C10 ---------------------------------- *)

\* C10 as claimed: once a database call has failed, no task inserts or
\* increments a counter, no further wave begins and the run does not report
\* completion.
C10_NothingAfterError ==
    [][failed =>
          /\ inserted' = inserted
          /\ progress' = progress
          /\ waves' = waves
          /\ mainPc' # "done"]_vars

\* C10 amended: once a database call has failed, the failing goroutine takes
\* no further step, no further wave begins and the run never reports
\* completion; once the process has exited nothing changes.  Between the
\* error and the exit the other tasks of the wave may still insert and
\* increment.
C10_ErrorHaltsRun ==
    [][/\ failed =>
            /\ waves' = waves
            /\ mainPc' # "done"
            /\ mainPc = "fatal" => mainPc' = "fatal"
       /\ \A i \in Idx :
            taskPc[i] = "fatal" =>
                /\ taskPc'[i] = "fatal"
                /\ inserted'[i] = inserted[i]
                /\ offset'[i] = offset[i]
       /\ halted => UNCHANGED vars]_vars

\* The process has exited on the error of one task while another task of the
\* wave was between two pages.
C10_Witness ==
    /\ halted
    /\ \E i, j \in Idx :
          /\ taskPc[i] = "fatal"
          /\ taskPc[j] = "close"
          /\ Len(inserted[j]) > 0

(* -------------------------------- C11 ---------------------------------- *)

\* C11: when the bulk insert of a table b fails and b depends on a table a
\* whose task has finished, the run has failed and does not report
\* completion; the counter of a equals the total of a and the one final
\* report of a showed total/total; the counter of b equals the rows of the
\* batches of b inserted before the failure, which are whole windows of the
\* source below the total of b.
C11_InsertFailureAfterDependency ==
    UniqueNames =>
        \A a, b \in Idx :
            (DependsOn(b, a) /\ Finished(a) /\ errStage[b] = "insert") =>
                /\ failed
                /\ taskPc[b] = "fatal"
                /\ mainPc # "done"
                /\ MigratedOf(a) = TotalOf(a)
                /\ Len(finalReports[a]) = 1
                /\ finalReports[a][1].migrated = TotalOf(a)
                /\ finalReports[a][1].total = TotalOf(a)
                /\ MigratedOf(b) = Len(inserted[b])
                /\ MigratedOf(b) < TotalOf(b)
                /\ inserted[b] = SubSeq(SourceRows(TotalOf(b)), 1, offset[b])

\* The process has exited after the insert of the second batch of b failed:
\* a is complete and b is counted partially.
C11_Witness ==
    /\ UniqueNames
    /\ halted
    /\ \E a, b \in Idx :
          /\ DependsOn(b, a)
          /\ Finished(a)
          /\ TotalOf(a) > 0
          /\ errStage[b] = "insert"
          /\ MigratedOf(b) = 1

(* -------------------------------- C12 ---------------------------------- *)

\* The report printed last for table i, by its reporter or by its task.
Reported(i) == lastReport[i] # NoReport

\* C12 as claimed: every progress report shows a percentage in [0, 100], and
\* the report of a table whose total is 0 shows the percentage 0.
C12_PercentageInRange ==
    \A i \in Idx :
        Reported(i) =>
            LET line == lastReport[i].line
            IN  /\ line.percentage.class = "finite"
                /\ line.percentage.hundredths \in 0..10000
                /\ line.total = 0 => line.percentage.hundredths = 0

(* -------------------------------- C13 ---------------------------------- *)

\* C13: a report printed while the counter it read was 0 carries no time
\* estimate, and a report that carries one read a counter above 0 and shows
\* remaining rows times the whole seconds per migrated row.
C13_NoEstimateBeforeFirstBatch ==
    \A i \in Idx :
        Reported(i) =>
            LET line == lastReport[i].line
            IN  /\ line.migrated = 0 => line.estimate = NoEstimate
                /\ line.estimate.shown =>
                      /\ line.migrated > 0
                      /\ \E elapsedTime \in 0..MaxElapsed :
                            line.estimate.seconds =
                                (line.total - line.migrated)
                                    * (elapsedTime \div line.migrated)

\* The reporter of a table with rows has printed before the first batch was
\* counted.
C13_Witness ==
    \E i \in Idx :
        /\ Reported(i)
        /\ lastReport[i].by = "reporter"
        /\ lastReport[i].line.total > 0
        /\ lastReport[i].line.migrated = 0
        /\ lastReport[i].line.estimate = NoEstimate

(* -------------------------------- C14 ---------------------------------- *)

\* The scenario: table A without dependencies and with 2500 rows, table B
\* depending on A with 10 rows, batch size 1000, either driver.
ScenarioInit ==
    InitOf({<<[name |-> "A", deps |-> <<>>], [name |-> "B", deps |-> <<"A">>]>>},
           {1000},
           {[n \in TableNames |-> IF n = "A" THEN 2500 ELSE 10]})

ScenarioSpec == ScenarioInit /\ [][ReportNext]_vars

\* The page task i holds is the window of `size` rows that ends at row `last`.
HoldsWindow(i, size, last) ==
    page[i] = SubSeq(SourceRows(TotalOf(i)), last - size + 1, last)

\* C14: in the scenario the first ready set is exactly {A} and the second
\* exactly {B}, B is not started before A has finished, the task of A issues
\* three page queries whose pages have 1000, 1000 and 500 rows, the task of B
\* one of 10 rows, and the one final report of each table shows
\* migrated = total.
C14_Scenario ==
    /\ JustFiltered /\ waves = 1 => tablesToProcess = <<1>>
    /\ JustFiltered /\ waves = 2 => tablesToProcess = <<2>>
    /\ waves <= 2
    /\ Started(1) => taskWave[1] = 1 /\ dispatched[1] = 1
    /\ Started(2) => taskWave[2] = 2 /\ dispatched[2] = 1 /\ Finished(1)
    /\ pages[1] <= 3 /\ pages[2] <= 1
    /\ taskPc[1] \in {"insert", "add", "close"} =>
          \/ pages[1] = 1 /\ HoldsWindow(1, 1000, 1000)
          \/ pages[1] = 2 /\ HoldsWindow(1, 1000, 2000)
          \/ pages[1] = 3 /\ HoldsWindow(1, 500, 2500)
    /\ taskPc[2] \in {"insert", "add", "close"} =>
          pages[2] = 1 /\ HoldsWindow(2, 10, 10)
    /\ LoopExited(1) => pages[1] = 3
    /\ LoopExited(2) => pages[2] = 1
    /\ \A i \in Idx :
          /\ ~Finished(i) => finalReports[i] = <<>>
          /\ Finished(i) =>
                /\ Len(finalReports[i]) = 1
                /\ finalReports[i][1].migrated = TotalOf(i)
                /\ finalReports[i][1].total = TotalOf(i)
    /\ mainPc = "done" => Finished(1) /\ Finished(2)

\* The scenario has run to the completion message: 2500 and 10 rows are
\* inserted and reported.
C14_Witness ==
    /\ batchSize = 1000
    /\ mainPc = "done"
    /\ pages = <<3, 1>>
    /\ Len(inserted[1]) = 2500
    /\ Len(inserted[2]) = 10
    /\ finalReports[1][1].migrated = 2500
    /\ finalReports[2][1].migrated = 10

(* -------------------------------- C15 ---------------------------------- *)

\* The rows rows.Scan can deliver: 1..MaxCols columns of any value.
ScannedRows == UNION {[1..n -> ColumnValueSpace] : n \in 1..MaxCols}

\* The serialization loop applied to any scanned row within the bounds.
SerializeInit ==
    /\ columnValues \in ScannedRows
    /\ stringValues = <<>>
    /\ mainPc = "scan"
    /\ tables = <<>>
    /\ batchSize = 1
    /\ driver = "godror"
    /\ rows = [n \in TableNames |-> 0]
    /\ progress = <<>>
    /\ processedTables = {}
    /\ countIdx = 1
    /\ tablesToProcess = <<>>
    /\ dispatchIdx = 1
    /\ wg = 0
    /\ waves = 0
    /\ taskPc = <<>>
    /\ taskWave = <<>>
    /\ dispatched = <<>>
    /\ offset = <<>>
    /\ page = <<>>
    /\ pages = <<>>
    /\ inserted = <<>>
    /\ failed = FALSE
    /\ halted = FALSE
    /\ errStage = <<>>
    /\ ticks = 0
    /\ tick = <<>>
    /\ repPc = <<>>
    /\ lastReport = <<>>
    /\ finalReports = <<>>

\* The loop over columnValues of one scanned row.
SerializeRow ==
    /\ mainPc = "scan"
    /\ stringValues' = [k \in 1..Len(columnValues) |-> StringValue(columnValues[k])]
    /\ mainPc' = "serialized"
    /\ UNCHANGED <<cfgVars, columnValues, errStage, repVars, progress,
                   processedTables, countIdx, tablesToProcess, dispatchIdx, wg,
                   waves, taskVars, taskWave, dispatched, failed, halted>>

SerializeSpec == SerializeInit /\ [][SerializeRow]_vars

\* The literal begins and ends with a quote.
Quoted(lit) == Len(lit) >= 2 /\ lit[1] = "'" /\ lit[Len(lit)] = "'"

\* What stands between the quotes.
Unquoted(lit) == SubSeq(lit, 2, Len(lit) - 1)

DigitValue(s) == CHOOSE d \in 0..9 : ToString(d) = s

\* The hour since the start of January 2006, UTC, that a timestamp literal
\* with the zone designator +00:00 denotes.
InstantOfLiteral(lit) ==
    (10 * DigitValue(lit[3]) + DigitValue(lit[4])) * 24
        + 10 * DigitValue(lit[6]) + DigitValue(lit[7])

\* C15: the serialized row has one literal per column: a nil value gives the
\* bare token NULL; a time gives a quoted literal with the zone designator
\* +00:00 that denotes the instant of the value; any other value gives its
\* fmt.Sprint text between quotes.
C15_NullTimeAndQuoted ==
    mainPc = "serialized" =>
        /\ Len(stringValues) = Len(columnValues)
        /\ \A k \in DOMAIN columnValues :
              LET v == columnValues[k]
                  lit == stringValues[k]
              IN  /\ v.kind = "nil" => lit = <<"NULL">>
                  /\ v.kind = "time" =>
                        /\ Quoted(lit)
                        /\ Len(lit) = 11
                        /\ lit[10] = "+00:00"
                        /\ InstantOfLiteral(lit) = v.day * 24 + v.hour - v.zone
                  /\ v.kind = "string" => Quoted(lit) /\ Unquoted(lit) = v.text
                  /\ v.kind = "int64" =>
                        Quoted(lit) /\ Unquoted(lit) = <<ToString(v.n)>>

\* A row holding a nil and a time whose UTC day differs from its local day
\* has been serialized.
C15_Witness ==
    /\ mainPc = "serialized"
    /\ \E k, l \in DOMAIN columnValues :
          /\ columnValues[k].kind = "nil"
          /\ stringValues[k] = <<"NULL">>
          /\ columnValues[l] = [kind |-> "time", day |-> 3, hour |-> 0, zone |-> 1]
          /\ Unquoted(stringValues[l])
                = <<"2006-01-", "0", "2", " ", "2", "3", ":00:00.00", " ", "+00:00">>
          /\ RowLiteral(stringValues)[1] = "("

(* -------------------------------- C16 ---------------------------------- *)

\* The goroutine of table i has been started and has not returned.
Running(i) == taskPc[i] \notin {"idle", "done"}

\* C16: while main() tests the loop condition or has just computed a ready
\* set, no task is running; every running task was dispatched in the
\* iteration main() is in, so all running tasks are of one wave; and the name
\* of every started task, running or done, is in processedTables.
C16_WaveBarrier ==
    /\ (mainPc = "loop" \/ JustFiltered) =>
          /\ wg = 0
          /\ \A i \in Idx : ~Running(i)
    /\ \A i \in Idx : Running(i) => mainPc = "dispatch" /\ taskWave[i] = waves
    /\ \A i, j \in Idx : Running(i) /\ Running(j) => taskWave[i] = taskWave[j]
    /\ \A i, j \in Idx :
          Running(i) /\ Started(j) /\ taskWave[j] < taskWave[i] => Finished(j)
    /\ \A i \in Idx : Started(i) => NameOf(i) \in processedTables

\* Two tasks of the first wave run side by side while main() waits, and both
\* names are already in processedTables.
C16_Witness ==
    /\ mainPc = "dispatch"
    /\ \E i, j \in Idx :
          /\ i # j
          /\ Running(i) /\ taskPc[i] = "insert"
          /\ Running(j) /\ taskPc[j] = "close"
          /\ taskWave[i] = 1 /\ taskWave[j] = 1
          /\ {NameOf(i), NameOf(j)} \subseteq processedTables

(* -------------------------------- C17 ---------------------------------- *)

\* C17: the counter of a table never exceeds the rows its task has inserted,
\* and no report shows more than that; the counter takes in a batch only in
\* the step after the insert of that batch has succeeded; a step in which an
\* insert fails leaves every counter as it was, and after it the counter of
\* the failed task equals the rows of its earlier batches.
C17_IncrementOnlyAfterInsert ==
    [][/\ \A i \in Idx :
             Counted(i) =>
                /\ MigratedOf(i) <= Len(inserted[i])
                /\ Reported(i) => lastReport[i].line.migrated <= Len(inserted[i])
                /\ progress'[NameOf(i)].migrated <= Len(inserted'[i])
                /\ lastReport'[i] # NoReport =>
                      lastReport'[i].line.migrated <= Len(inserted'[i])
                /\ progress'[NameOf(i)].migrated # MigratedOf(i) =>
                      /\ taskPc[i] = "add"
                      /\ inserted'[i] = inserted[i]
                      /\ progress'[NameOf(i)].migrated = Len(inserted[i])
       /\ \A i \in Idx :
             (taskPc[i] = "insert" /\ taskPc'[i] = "fatal") =>
                /\ progress' = progress
                /\ inserted' = inserted
                /\ MigratedOf(i) = Len(inserted[i])]_vars

\* A reporter has shown the counter of one counted batch while the second
\* batch was inserted and not yet counted.
C17_Witness ==
    \E i \in Idx :
        /\ taskPc[i] = "add"
        /\ Len(inserted[i]) = 2
        /\ MigratedOf(i) = 1
        /\ Reported(i)
        /\ lastReport[i].by = "reporter"
        /\ lastReport[i].line.migrated = 1

(* -------------------------------- C18 ---------------------------------- *)

\* progressTicker.Stop() of task i has returned.
TickerStopped(i) == taskPc[i] \in {"report", "done"}

\* C18 as claimed: once the ticker of a task has been stopped, the only
\* report printed for its table is the final one of the task itself, and
\* that report stays the last one printed for the table.
C18_NoReportAfterStop ==
    [][\A i \in Idx :
          /\ TickerStopped(i) =>
                \/ lastReport'[i] = lastReport[i]
                \/ lastReport'[i].by = "task"
          /\ Finished(i) => lastReport'[i] = lastReport[i]]_vars

(* -------------------------------- C19 ---------------------------------- *)

\* C19: a task prints no report of its own before its loop has ended and its
\* ticker is stopped; a task that has returned has printed exactly one, and
\* that report shows the value the counter has since kept, which is the
\* total of the table.  A task that met an error has printed none.
C19_OneFinalReport ==
    \A i \in Idx :
        /\ ~Finished(i) => finalReports[i] = <<>>
        /\ Finished(i) =>
              /\ Len(finalReports[i]) = 1
              /\ finalReports[i][1].table = NameOf(i)
              /\ finalReports[i][1].migrated = MigratedOf(i)
              /\ finalReports[i][1].migrated = TotalOf(i)
              /\ finalReports[i][1].total = TotalOf(i)

\* A task has returned after its reporter had printed a periodic report; its
\* own final report is the last one.
C19_Witness ==
    /\ Len(tables) = 1
    /\ Finished(1)
    /\ TotalOf(1) > 0
    /\ ticks = 1 /\ tick[1] = 0 /\ repPc[1] = "wait"
    /\ lastReport[1].by = "task"
    /\ finalReports[1] = <<lastReport[1].line>>

(* -------------------------------- C20 ---------------------------------- *)

\* C20: in every step each counter that exists keeps its total and does not
\* lose its entry; its migrated value does not decrease, and when it changes
\* the step is the increment of the task of that very table: that task goes
\* from the increment to rows.Close(), no other task moves, and no reporter
\* moves or prints.
C20_CounterFrame ==
    [][\A n \in DOMAIN progress :
          /\ n \in DOMAIN progress'
          /\ progress'[n].total = progress[n].total
          /\ progress'[n].migrated >= progress[n].migrated
          /\ progress'[n].migrated # progress[n].migrated =>
                \E i \in Idx :
                    /\ NameOf(i) = n
                    /\ taskPc[i] = "add"
                    /\ taskPc'[i] = "close"
                    /\ progress'[n].migrated = progress[n].migrated + Len(page[i])
                    /\ \A j \in Idx \ {i} : taskPc'[j] = taskPc[j]
                    /\ \A m \in DOMAIN progress \ {n} : progress'[m] = progress[m]
                    /\ repPc' = repPc
                    /\ lastReport' = lastReport]_vars

\* Two tasks run side by side and each counter holds the rows of its own
\* task only; the reporter of the first has printed in between.
C20_Witness ==
    \E i, j \in Idx :
        /\ i # j
        /\ Running(i) /\ Running(j)
        /\ TotalOf(i) = 2 /\ MigratedOf(i) = 2
        /\ lastReport[i].by = "reporter"
        /\ lastReport[i].line.migrated = 1
        /\ taskPc[j] = "close"
        /\ TotalOf(j) = 2 /\ MigratedOf(j) = 1

(* -------------------------------- C21 ---------------------------------- *)

\* No goroutine has been started.
NothingDispatched == \A i \in Idx : ~Started(i)

\* C21: once main() has left the row-count loop without an error, every
\* configured table has a counter whose total is the row count of its source
\* table, and until the first dispatch every counter is at 0; while the loop
\* runs, and after a row count has failed, no table is dispatched, no name is
\* processed and no row is inserted, and after a failure that stays so.
C21_CountersBeforeDispatch ==
    /\ (mainPc \in {"loop", "dispatch", "done"} \/ ~NothingDispatched) =>
          \A i \in Idx :
              /\ Counted(i)
              /\ progress[NameOf(i)].total = rows[NameOf(i)]
    /\ (mainPc \in {"loop", "dispatch"} /\ NothingDispatched) =>
          \A i \in Idx : MigratedOf(i) = 0
    /\ mainPc \in {"count", "fatal"} =>
          /\ NothingDispatched
          /\ processedTables = {}
          /\ waves = 0
          /\ \A i \in Idx : inserted[i] = <<>>
          /\ \A n \in DOMAIN progress : progress[n].migrated = 0
    /\ mainPc = "fatal" => failed /\ countIdx <= Len(tables)

\* The row count of the second table has failed after the first was counted,
\* and the process has exited with nothing dispatched.
C21_Witness ==
    /\ mainPc = "fatal"
    /\ halted
    /\ countIdx = 2
    /\ Counted(1)
    /\ ~Counted(2)
    /\ NothingDispatched

(* -------------------------------- C22 ---------------------------------- *)

\* C22 as claimed: under any batch size from 0 on, a task that has begun its
\* fetch loop leaves it, or a database call returns an error.
C22_FetchLoopTerminates ==
    \A i \in 1..MaxTables :
        (i \in Idx /\ taskPc[i] = "query") ~> (i \in Idx /\ (LoopExited(i) \/ failed))

(* -------------------------------- C23 ---------------------------------- *)

\* The program started from any table list, lists in which two entries
\* carry the same name included.
AnyListSpec == InitFrom(ListSpace) /\ [][Next]_vars

\* C23 as claimed: no two entries of one name are both dispatched and no
\* entry is dispatched twice; and when main() tests the loop condition with
\* every name processed and every started task done, the condition is false
\* and the loop ends.
C23_EachNameOnceAndLoopEnds ==
    /\ \A i \in Idx : dispatched[i] <= 1
    /\ \A i, j \in Idx :
          (i # j /\ NameOf(i) = NameOf(j)) => ~(Started(i) /\ Started(j))
    /\ (/\ mainPc = "loop"
        /\ AllNames \subseteq processedTables
        /\ \A i \in Idx : Started(i) => Finished(i))
          => ~(Cardinality(processedTables) < Len(tables))

(* -------------------------------- C24 ---------------------------------- *)

\* The program with its reporters, from every configuration with unique
\* names, every goroutine that can take a step eventually taking one.
FairReportSpec == Init /\ [][ReportNext]_vars /\ WF_vars(ReportNext)

\* The reporter goroutine of task i exists in a live process: it waits on
\* progressTicker.C or is about to print.
ReporterAlive(i) ==
    /\ repPc[i] \in {"wait", "print"}
    /\ ~halted
    /\ mainPc # "done"

\* C24 as claimed: after the task of a table has returned, its reporter
\* goroutine is eventually no longer alive.
C24_ReporterEnds ==
    \A i \in 1..MaxTables :
        (i \in Idx /\ Finished(i)) ~> (i \in Idx /\ ~ReporterAlive(i))

=============================================================================
